---------------------------- MODULE Spec2Model ----------------------------
(***************************************************************************)
(* A model of src/main.rs of twitch-irc: the IRC line parser, the          *)
(* transport (reader thread, writer thread, handshake of IRC::new) and the *)
(* modal key handling of main's interaction loop.                          *)
(*                                                                         *)
(* Text is a sequence of one-character strings; indices are 0-based as in  *)
(* Rust, and every slice is guarded by the bound check Rust performs, so   *)
(* that a panic of the code is an outcome of the model.                    *)
(***************************************************************************)
EXTENDS Integers, Sequences, FiniteSets, TLC

(***************************************************************************)
(* Bounds of the model.                                                    *)
(***************************************************************************)
\* longest compose buffer the keyboard actions build
MaxCompose == 2
\* most entries the scrollback holds before inbound lines stop being read
MaxChat == 2
\* most records a run submits to the outbound queue
MaxSubmitted == 6
\* most lines the server sends in a run of the transport
MaxLines == 2
\* most messages the user sends in a run of the interaction model
MaxLocal == 1
\* longest text the user types in a run of the transport
MaxTyped == 1
\* longest scrollback and tallest screen the scrollback model starts from
MaxShown == 3
MaxScreenRows == 3
MaxRead == 3
\* largest column the motions of the interaction model move to
MaxColumn == 6
\* the terminal size: ScreenRows rows, ScreenColumns columns
ScreenRows == 2
ScreenColumns == 80

(***************************************************************************)
(* str primitives (std), 0-based.  NoIdx is Option::None of find/rfind.    *)
(***************************************************************************)
NoIdx == 0 - 1

\* &s[a..b]; the caller checks SliceOk first (Rust panics otherwise)
Sub(s, a, b) == SubSeq(s, a + 1, b)

\* &s[a..]
From(s, a) == SubSeq(s, a + 1, Len(s))

\* the bound check of &s[a..b]
SliceOk(s, a, b) == 0 <= a /\ a <= b /\ b <= Len(s)

\* str::starts_with / the test of str::strip_prefix
starts_with(s, lit) == Len(s) >= Len(lit) /\ SubSeq(s, 1, Len(lit)) = lit

\* str::find(char)
find(s, c) ==
  IF \E i \in 1..Len(s) : s[i] = c
  THEN (CHOOSE i \in 1..Len(s) : s[i] = c /\ \A j \in 1..(i - 1) : s[j] # c) - 1
  ELSE NoIdx

\* str::rfind(char)
rfind(s, c) ==
  IF \E i \in 1..Len(s) : s[i] = c
  THEN (CHOOSE i \in 1..Len(s) : s[i] = c /\ \A j \in (i + 1)..Len(s) : s[j] # c) - 1
  ELSE NoIdx

\* str::split(char), as the sequence of its pieces
RECURSIVE split(_, _)
split(s, c) ==
  IF find(s, c) = NoIdx THEN << s >>
  ELSE << Sub(s, 0, find(s, c)) >> \o split(From(s, find(s, c) + 1), c)

\* graphemes(true).count() over single-byte text: CR LF is one cluster
graphemes_count(s) ==
  Len(s) - Cardinality({i \in 1..(Len(s) - 1) : s[i] = "\r" /\ s[i + 1] = "\n"})

\* Option<String>
NoneStr == [some |-> FALSE, v |-> << >>]
SomeStr(s) == [some |-> TRUE, v |-> s]

(***************************************************************************)
(* Literals of the source.                                                 *)
(***************************************************************************)
LitPrivmsg == <<"P", "R", "I", "V", "M", "S", "G", " ">>
LitGlobalUserState ==
  <<"G", "L", "O", "B", "A", "L", "U", "S", "E", "R", "S", "T", "A", "T", "E">>
LitCapAck == <<"C", "A", "P", " ", "*", " ", "A", "C", "K">>
LitPing ==
  <<"P", "I", "N", "G", " ", ":", "t", "m", "i", ".", "t", "w", "i", "t", "c",
    "h", ".", "t", "v", "\r", "\n">>
LitDisplayName ==
  <<"d", "i", "s", "p", "l", "a", "y", "-", "n", "a", "m", "e">>
CRLF == <<"\r", "\n">>

(***************************************************************************)
(* Tags                                                                    *)
(***************************************************************************)
\* Tags::default(): the empty map
EmptyTags == [k \in {} |-> << >>]

\* (key, value) of tag.split_once('='), for a piece that holds '='
TagKey(piece) == Sub(piece, 0, find(piece, "="))
TagValue(piece) == From(piece, find(piece, "=") + 1)

\* the HashMap after inserting the pieces in order (a later insert wins)
TagMap(pieces) ==
  [k \in {TagKey(pieces[i]) : i \in 1..Len(pieces)} |->
     LET last == CHOOSE i \in 1..Len(pieces) :
                   /\ TagKey(pieces[i]) = k
                   /\ \A j \in (i + 1)..Len(pieces) : TagKey(pieces[j]) # k
     IN  TagValue(pieces[last])]

\* Tags::parse: kind is "Some", "None" or "Panic"; pos is *pos afterwards
TagsParse(raw_message, pos) ==
  LET rest == From(raw_message, pos)
      space_index == find(rest, " ")
      none == [kind |-> "None", tags |-> EmptyTags, pos |-> pos]
      panic == [kind |-> "Panic", tags |-> EmptyTags, pos |-> pos]
  IN  IF ~starts_with(rest, <<"@">>) \/ space_index = NoIdx THEN none
      ELSE IF ~SliceOk(raw_message, pos, space_index) THEN panic
      ELSE LET pieces == split(Sub(raw_message, pos, space_index), ";")
           IN  IF \E i \in 1..Len(pieces) : find(pieces[i], "=") = NoIdx
               THEN panic
               ELSE [kind |-> "Some", tags |-> TagMap(pieces),
                     pos |-> space_index + 1]

\* Tags::get
TagsGet(tags, tag) ==
  IF tag \in DOMAIN tags THEN SomeStr(tags[tag]) ELSE NoneStr

(***************************************************************************)
(* Prefix                                                                  *)
(***************************************************************************)
NoPrefix == [nick |-> NoneStr, user |-> NoneStr, host |-> << >>]

\* a Prefix::parse that leaves the cursor at the index of the space within
\* the rest of the line, without adding the offset it started from
PrefixParseCursorFromStart(raw_message, pos) ==
  LET rest == From(raw_message, pos)
      host_start == pos + 1
      end_index == find(rest, " ")
      user_index == find(rest, "!")
      at_index == find(rest, "@")
      none == [kind |-> "None", prefix |-> NoPrefix, pos |-> pos]
      panic == [kind |-> "Panic", prefix |-> NoPrefix, pos |-> pos]
  IN  IF ~starts_with(rest, <<":">>) THEN none
      ELSE IF end_index = NoIdx THEN none
      ELSE IF user_index # NoIdx
      THEN IF ~SliceOk(raw_message, host_start, pos + user_index) THEN panic
           ELSE IF at_index = NoIdx THEN none
           ELSE IF \/ ~SliceOk(raw_message, pos + user_index + 1, pos + at_index)
                   \/ ~SliceOk(raw_message, pos + at_index + 1, pos + end_index)
                THEN panic
                ELSE [kind |-> "Some",
                      prefix |->
                        [nick |-> SomeStr(Sub(raw_message, host_start, pos + user_index)),
                         user |-> SomeStr(Sub(raw_message, pos + user_index + 1,
                                              pos + at_index)),
                         host |-> Sub(raw_message, pos + at_index + 1, pos + end_index)],
                      pos |-> end_index + 1]
      ELSE IF ~SliceOk(raw_message, host_start, pos + end_index) THEN panic
           ELSE [kind |-> "Some",
                 prefix |-> [nick |-> NoneStr, user |-> NoneStr,
                             host |-> Sub(raw_message, host_start, pos + end_index)],
                 pos |-> end_index + 1]

\* Prefix::parse
PrefixParse(raw_message, pos) ==
  LET rest == From(raw_message, pos)
      host_start == pos + 1
      end_index == find(rest, " ")
      user_index == find(rest, "!")
      at_index == find(rest, "@")
      none == [kind |-> "None", prefix |-> NoPrefix, pos |-> pos]
      panic == [kind |-> "Panic", prefix |-> NoPrefix, pos |-> pos]
  IN  IF ~starts_with(rest, <<":">>) THEN none
      ELSE IF end_index = NoIdx THEN none
      ELSE IF user_index # NoIdx
      THEN IF ~SliceOk(raw_message, host_start, pos + user_index) THEN panic
           ELSE IF at_index = NoIdx THEN none
           ELSE IF \/ ~SliceOk(raw_message, pos + user_index + 1, pos + at_index)
                   \/ ~SliceOk(raw_message, pos + at_index + 1, pos + end_index)
                THEN panic
                ELSE [kind |-> "Some",
                      prefix |->
                        [nick |-> SomeStr(Sub(raw_message, host_start, pos + user_index)),
                         user |-> SomeStr(Sub(raw_message, pos + user_index + 1,
                                              pos + at_index)),
                         host |-> Sub(raw_message, pos + at_index + 1, pos + end_index)],
                      pos |-> pos + end_index + 1]
      ELSE IF ~SliceOk(raw_message, host_start, pos + end_index) THEN panic
           ELSE [kind |-> "Some",
                 prefix |-> [nick |-> NoneStr, user |-> NoneStr,
                             host |-> Sub(raw_message, host_start, pos + end_index)],
                 pos |-> pos + end_index + 1]

(***************************************************************************)
(* IRCCommand                                                              *)
(***************************************************************************)
CmdPrivmsg(channel, message) ==
  [cmd |-> "Privmsg", channel |-> channel, message |-> message]
CmdGlobalUserState == [cmd |-> "GlobalUserState"]
CmdUnknown(text) == [cmd |-> "Unknown", text |-> text]
CmdCapAck == [cmd |-> "CapAck"]
CmdPing == [cmd |-> "Ping"]

\* an IRCCommand::parse that ends the channel slice at the ':', keeping the
\* space before it
CommandParseChannelToColon(raw_message, pos) ==
  LET rest == From(raw_message, pos)
      privmsg == From(rest, Len(LitPrivmsg))
      channel_start == find(privmsg, "#")
      message_start == find(privmsg, ":")
      none == [kind |-> "None", command |-> CmdPing]
      panic == [kind |-> "Panic", command |-> CmdPing]
  IN  IF starts_with(rest, LitPrivmsg)
      THEN IF channel_start = NoIdx \/ message_start = NoIdx THEN none
           \* message_start - 1 underflows at 0; the slice checks its bounds
           ELSE IF ~SliceOk(privmsg, channel_start + 1, message_start - 1)
           THEN panic
           ELSE [kind |-> "Some",
                 command |-> CmdPrivmsg(Sub(privmsg, channel_start + 1, message_start),
                                        From(privmsg, message_start + 1))]
      ELSE IF starts_with(rest, LitGlobalUserState)
      THEN [kind |-> "Some", command |-> CmdGlobalUserState]
      ELSE IF starts_with(rest, LitCapAck)
      THEN [kind |-> "Some", command |-> CmdCapAck]
      ELSE IF starts_with(rest, LitPing)
      THEN [kind |-> "Some", command |-> CmdPing]
      ELSE [kind |-> "Some", command |-> CmdUnknown(rest)]

\* IRCCommand::parse
CommandParse(raw_message, pos) ==
  LET rest == From(raw_message, pos)
      privmsg == From(rest, Len(LitPrivmsg))
      channel_start == find(privmsg, "#")
      message_start == find(privmsg, ":")
      none == [kind |-> "None", command |-> CmdPing]
      panic == [kind |-> "Panic", command |-> CmdPing]
  IN  IF starts_with(rest, LitPrivmsg)
      THEN IF channel_start = NoIdx \/ message_start = NoIdx THEN none
           \* message_start - 1 underflows at 0; the slice checks its bounds
           ELSE IF ~SliceOk(privmsg, channel_start + 1, message_start - 1)
           THEN panic
           ELSE [kind |-> "Some",
                 command |-> CmdPrivmsg(Sub(privmsg, channel_start + 1, message_start - 1),
                                        From(privmsg, message_start + 1))]
      ELSE IF starts_with(rest, LitGlobalUserState)
      THEN [kind |-> "Some", command |-> CmdGlobalUserState]
      ELSE IF starts_with(rest, LitCapAck)
      THEN [kind |-> "Some", command |-> CmdCapAck]
      ELSE IF starts_with(rest, LitPing)
      THEN [kind |-> "Some", command |-> CmdPing]
      ELSE [kind |-> "Some", command |-> CmdUnknown(rest)]

(***************************************************************************)
(* IRCMessage                                                              *)
(***************************************************************************)
NoMessage == [tags |-> EmptyTags, prefix |-> NoPrefix, command |-> CmdPing]

\* IRCMessage::parse: Tags::parse(..).unwrap_or_default(), Prefix::parse(..)?,
\* IRCCommand::parse(..)?
MessageParse(raw_message) ==
  LET t == TagsParse(raw_message, 0)
      p == PrefixParse(raw_message, t.pos)
      c == CommandParse(raw_message, p.pos)
  IN  IF t.kind = "Panic" THEN [kind |-> "Panic", msg |-> NoMessage]
      ELSE IF p.kind # "Some" THEN [kind |-> p.kind, msg |-> NoMessage]
      ELSE IF c.kind # "Some" THEN [kind |-> c.kind, msg |-> NoMessage]
      ELSE [kind |-> "Some",
            msg |-> [tags |-> t.tags, prefix |-> p.prefix, command |-> c.command]]

\* the parsers not yet called on the line raw_message, *pos = 0
NoCall(raw_message) ==
  [fn |-> "start", raw_message |-> raw_message, pos |-> 0, kind |-> "Some",
   tags |-> EmptyTags, prefix |-> NoPrefix, command |-> CmdPing]

(***************************************************************************)
(* State.                                                                  *)
(***************************************************************************)
VARIABLES
  hs,            \* position of IRC::new: "start", "wait", "pass", "nick",
                 \* "join", "ready" (Ok(Self) returned) or "failed" (Err)
  received,      \* what recv_timeout returned in IRC::new
  conn,          \* the TCP stream as the remote leaves it: "open" or "closed"
  eofRead,       \* the reader thread has had read_line return Ok(0)
  readerAlive,   \* the reader thread runs (irc_message_sender not dropped)
  writerAlive,   \* the writer thread runs (message_receiver not dropped)
  inq,           \* channel irc_message_sender -> irc_message_receiver
  outq,          \* channel message_sender -> message_receiver
  wire,          \* the records write_all has written to the socket, in order
  submitted,     \* the records message_sender.send accepted, in order
  nread,         \* number of lines read_line has returned
  lastPoll,      \* what the last failing try_recv of main's drain returned
  pc,            \* position of main's loop: "drain", "poll", "exit", "panicked"
  key_event,     \* the key event the iteration dispatched (code, CONTROL);
                 \* NoKey before event::read() returns one
  total_columns, \* terminal::size().0
  total_rows,    \* terminal::size().1
  edit_mode,     \* Mode
  row,           \* cursor_pos.row
  column,        \* cursor_pos.column
  send_message,  \* the compose buffer
  chat_messages, \* Vec<Privmsg>
  user_tags,     \* Option<Tags>
  clipboard,     \* text held by the system clipboard (Option)
  read_log,      \* the lines read_line has returned to the reader thread, in order
  parse_call     \* a call sequence Tags::parse, Prefix::parse, IRCCommand::parse
                 \* on one line: the line, *pos and what the last call returned

netVars == <<hs, received, conn, eofRead, readerAlive, writerAlive, inq, outq,
             wire, submitted, nread, read_log>>
uiVars == <<pc, key_event, lastPoll, total_columns, total_rows, edit_mode, row, column, send_message,
            chat_messages, user_tags, clipboard>>
vars == <<netVars, uiVars, parse_call>>

(***************************************************************************)
(* Inputs: the arguments main passes to IRC::new, and the lines the server *)
(* sends.  Short stand-ins keep the records small.                         *)
(***************************************************************************)
AuthToken == <<"t">>
Nick == <<"m", "e">>
Channel == <<"c">>

\* ":h CAP * ACK\r\n"
LineAck == <<":", "h", " ">> \o LitCapAck \o CRLF
\* "@k=;display-name=b :n!u@h PRIVMSG #c :x\r\n"
LinePrivmsg ==
  <<"@", "k", "=", ";">> \o LitDisplayName \o <<"=", "b", " ", ":", "n", "!", "u", "@", "h", " ">>
  \o LitPrivmsg \o <<"#", "c", " ", ":", "x">> \o CRLF
\* ":n!u@h PRIVMSG #c :z\r\n"
LinePrivmsgNoTags ==
  <<":", "n", "!", "u", "@", "h", " ">> \o LitPrivmsg
  \o <<"#", "c", " ", ":", "z">> \o CRLF
\* "@k=;display-name=Me :h GLOBALUSERSTATE\r\n"
LineGlobalUserState ==
  <<"@", "k", "=", ";">> \o LitDisplayName \o <<"=", "M", "e", " ", ":", "h", " ">>
  \o LitGlobalUserState \o CRLF
\* "x\r\n": neither '@' nor ':' first
LineNoPrefix == <<"x">> \o CRLF
\* "@k :h X\r\n": a tag piece without '='
LineTagNoEq == <<"@", "k", " ", ":", "h", " ", "X">> \o CRLF
\* ":h PRIVMSG :#c\r\n": the first ':' precedes the first '#'
LineColonFirst == <<":", "h", " ">> \o LitPrivmsg \o <<":", "#", "c">> \o CRLF

WellFormedLines == {LineAck, LinePrivmsg, LinePrivmsgNoTags, LineGlobalUserState}
MalformedLines == {LineNoPrefix, LineTagNoEq, LineColonFirst}
NetLines == WellFormedLines \cup MalformedLines

(***************************************************************************)
(* Outbound records.                                                       *)
(***************************************************************************)
\* "CAP REQ :twitch.tv/membership twitch.tv/tags twitch.tv/commands\r\n",
\* abbreviated to its verb
RecCapReq == <<"C", "A", "P", " ", "R", "E", "Q">> \o CRLF
\* format!("PASS oauth:{}\r\n", auth_token)
RecPass(auth_token) ==
  <<"P", "A", "S", "S", " ", "o", "a", "u", "t", "h", ":">> \o auth_token \o CRLF
\* format!("NICK {}\r\n", nick)
RecNick(nick) == <<"N", "I", "C", "K", " ">> \o nick \o CRLF
\* format!("JOIN #{channel}\r\n")
RecJoin(channel) == <<"J", "O", "I", "N", " ", "#">> \o channel \o CRLF
\* format!("PRIVMSG #{} :{message}\r\n", self.channel)
RecPrivmsg(channel, message) ==
  LitPrivmsg \o <<"#">> \o channel \o <<" ", ":">> \o message \o CRLF

(***************************************************************************)
(* crossbeam channel operations.                                           *)
(***************************************************************************)
\* message_sender.send(record) is Ok while message_receiver is not dropped
SendAccepts == writerAlive

\* the effect of message_sender.send(record) on the outbound channel
Submit(record) ==
  IF SendAccepts
  THEN outq' = Append(outq, record) /\ submitted' = Append(submitted, record)
  ELSE UNCHANGED <<outq, submitted>>

(***************************************************************************)
(* The writer thread of IRC::new.                                          *)
(***************************************************************************)
\* a writer that takes the newest queued record first
WriterWriteNewestFirst ==
  /\ writerAlive
  /\ outq # << >>
  /\ wire' = Append(wire, outq[Len(outq)])
  /\ outq' = SubSeq(outq, 1, Len(outq) - 1)
  /\ UNCHANGED <<parse_call, read_log, hs, received, conn, eofRead, readerAlive, writerAlive, inq,
                 submitted, nread, uiVars>>

\* for message in message_receiver { connection.write_all(..) } : Ok
WriterWrite ==
  /\ writerAlive
  /\ outq # << >>
  /\ wire' = Append(wire, Head(outq))
  /\ outq' = Tail(outq)
  /\ UNCHANGED <<parse_call, read_log, hs, received, conn, eofRead, readerAlive, writerAlive, inq,
                 submitted, nread, uiVars>>

\* write_all returns Err: unwrap panics, the thread ends and drops
\* message_receiver with the records still queued
WriterFail ==
  /\ writerAlive
  /\ outq # << >>
  /\ writerAlive' = FALSE
  /\ outq' = << >>
  /\ UNCHANGED <<parse_call, read_log, hs, received, conn, eofRead, readerAlive, inq, wire,
                 submitted, nread, uiVars>>

(***************************************************************************)
(* The reader thread of IRC::new.                                          *)
(***************************************************************************)
\* irc_message_receiver is dropped when IRC::new returns Err
ReceiverDropped == hs = "failed"

\* a reader whose event goes to the head of the inbound queue
ReaderReadLineJumpsQueue(line) ==
  /\ readerAlive
  /\ conn = "open"
  /\ nread' = nread + 1
  /\ read_log' = Append(read_log, line)
  /\ LET parsed == MessageParse(line)
     IN  CASE parsed.kind = "Some" /\ ~ReceiverDropped ->
                inq' = <<parsed.msg>> \o inq /\ UNCHANGED readerAlive
           [] parsed.kind = "Some" /\ ReceiverDropped ->
                readerAlive' = FALSE /\ UNCHANGED inq
           [] parsed.kind = "None" -> UNCHANGED <<inq, readerAlive>>
           [] parsed.kind = "Panic" -> readerAlive' = FALSE /\ UNCHANGED inq
  /\ UNCHANGED <<parse_call, hs, received, conn, eofRead, writerAlive, outq, wire,
                 submitted, uiVars>>

\* read_line returns Ok(n), n > 0, with `line` in buf
ReaderReadLine(line) ==
  /\ readerAlive
  /\ conn = "open"
  /\ nread' = nread + 1
  /\ read_log' = Append(read_log, line)
  /\ LET parsed == MessageParse(line)
     IN  CASE parsed.kind = "Some" /\ ~ReceiverDropped ->
                inq' = Append(inq, parsed.msg) /\ UNCHANGED readerAlive
           [] parsed.kind = "Some" /\ ReceiverDropped ->
                \* irc_message_sender.send(..).unwrap() panics
                readerAlive' = FALSE /\ UNCHANGED inq
           [] parsed.kind = "None" -> UNCHANGED <<inq, readerAlive>>
           [] parsed.kind = "Panic" -> readerAlive' = FALSE /\ UNCHANGED inq
  /\ UNCHANGED <<parse_call, hs, received, conn, eofRead, writerAlive, outq, wire,
                 submitted, uiVars>>

\* read_line returns Ok(0): the while let loop goes round again
ReaderReadEof ==
  /\ readerAlive
  /\ conn = "closed"
  /\ eofRead' = TRUE
  /\ UNCHANGED <<parse_call, read_log, hs, received, conn, readerAlive, writerAlive, inq, outq, wire,
                 submitted, nread, uiVars>>

\* the server closes the connection
RemoteClose ==
  /\ conn = "open"
  /\ conn' = "closed"
  /\ UNCHANGED <<parse_call, read_log, hs, received, eofRead, readerAlive, writerAlive, inq, outq,
                 wire, submitted, nread, uiVars>>

(***************************************************************************)
(* IRC::new after the two threads are spawned.                             *)
(***************************************************************************)
\* one `message_sender.send(record)?` of IRC::new, leading to position `next`
HsSend(at, record, next) ==
  /\ hs = at
  /\ Submit(record)
  /\ hs' = IF SendAccepts THEN next ELSE "failed"
  /\ UNCHANGED <<parse_call, read_log, received, conn, eofRead, readerAlive, writerAlive, inq, wire,
                 nread, uiVars>>

HsCapReq == HsSend("start", RecCapReq, "wait")

\* a handshake that goes on whatever the first event is
HsRecvAnyEvent ==
  /\ hs = "wait"
  /\ inq # << >>
  /\ received' = Head(inq).command.cmd
  /\ inq' = Tail(inq)
  /\ hs' = "pass"
  /\ UNCHANGED <<parse_call, read_log, conn, eofRead, readerAlive, writerAlive, outq, wire,
                 submitted, nread, uiVars>>

\* irc_message_receiver.recv_timeout(5 s)? returns an event
HsRecv ==
  /\ hs = "wait"
  /\ inq # << >>
  /\ received' = Head(inq).command.cmd
  /\ inq' = Tail(inq)
  /\ hs' = IF Head(inq).command = CmdCapAck THEN "pass" ELSE "failed"
  /\ UNCHANGED <<parse_call, read_log, conn, eofRead, readerAlive, writerAlive, outq, wire,
                 submitted, nread, uiVars>>

\* a handshake that goes on after recv_timeout returned Err
HsRecvErrIgnored ==
  /\ hs = "wait"
  /\ inq = << >>
  /\ received' = IF readerAlive THEN "Timeout" ELSE "Disconnected"
  /\ hs' = "pass"
  /\ UNCHANGED <<parse_call, read_log, conn, eofRead, readerAlive, writerAlive, inq, outq, wire,
                 submitted, nread, uiVars>>

\* recv_timeout returns Err: Timeout, or Disconnected once the reader is gone
HsRecvErr ==
  /\ hs = "wait"
  /\ inq = << >>
  /\ received' = IF readerAlive THEN "Timeout" ELSE "Disconnected"
  /\ hs' = "failed"
  /\ UNCHANGED <<parse_call, read_log, conn, eofRead, readerAlive, writerAlive, inq, outq, wire,
                 submitted, nread, uiVars>>

HsPass == HsSend("pass", RecPass(AuthToken), "nick")
HsNick == HsSend("nick", RecNick(Nick), "join")
HsJoin == HsSend("join", RecJoin(Channel), "ready")

(***************************************************************************)
(* Privmsg and the helpers of main's loop.                                 *)
(***************************************************************************)
\* u16::saturating_sub
saturating_sub(a, b) == IF a >= b THEN a - b ELSE 0

Min(a, b) == IF a <= b THEN a ELSE b

\* Privmsg::message_line: display-name tag, else prefix.user, else channel
message_line(m) ==
  LET display == TagsGet(m.tags, LitDisplayName)
      author == IF display.some THEN display.v
                ELSE IF m.prefix.user.some THEN m.prefix.user.v
                ELSE m.channel
  IN  author \o <<":", " ">> \o m.message

\* Privmsg::message_line_len
message_line_len(m) == graphemes_count(message_line(m))

\* messages_lines_start_pos of main (the same value as draw's first_message_pos)
messages_lines_start_pos ==
  saturating_sub(saturating_sub(total_rows, Len(chat_messages)), 1)

\* current_message_index of main
current_message_index == saturating_sub(row, messages_lines_start_pos)

\* chat_messages.get(i) is Some
ChatHas(i) == 0 <= i /\ i < Len(chat_messages)

\* chat_messages.get(i).unwrap()
ChatAt(i) == chat_messages[i + 1]

\* Option<Tags>
NoTags == [some |-> FALSE, v |-> EmptyTags]
SomeTags(t) == [some |-> TRUE, v |-> t]

\* a local entry that forgets the remembered tags
LocalEntryDefaultTags ==
  [tags |-> EmptyTags,
   prefix |-> [nick |-> SomeStr(Nick), user |-> SomeStr(Nick),
               host |-> <<"i", "d", "k">>],
   channel |-> Channel,
   message |-> send_message]

\* the Privmsg main pushes after a successful send
LocalEntry ==
  [tags |-> IF user_tags.some THEN user_tags.v ELSE EmptyTags,
   prefix |-> [nick |-> SomeStr(Nick), user |-> SomeStr(Nick),
               host |-> <<"i", "d", "k">>],
   channel |-> Channel,
   message |-> send_message]

\* String::insert_str(idx, text); the caller checks idx <= len
insert_str(s, idx, text) == Sub(s, 0, idx) \o text \o From(s, idx)

\* String::remove(idx); the caller checks idx < len
remove(s, idx) == Sub(s, 0, idx) \o From(s, idx + 1)

\* a KeyEvent: its code (a character for KeyCode::Char) and whether its
\* modifiers contain CONTROL
KeyOf(code, ctrl) == [code |-> code, ctrl |-> ctrl]
NoKey == KeyOf("None", FALSE)

(***************************************************************************)
(* main's loop: the drain of the inbound queue.                            *)
(***************************************************************************)
\* a drain that puts a received message above the scrollback, not below it
DrainOneNewestFirst ==
  /\ hs = "ready"
  /\ pc = "drain"
  /\ inq # << >>
  /\ inq' = Tail(inq)
  /\ LET irc_message == Head(inq)
     IN  CASE irc_message.command.cmd = "Privmsg" ->
                /\ chat_messages' =
                     <<[tags |-> irc_message.tags,
                        prefix |-> irc_message.prefix,
                        channel |-> irc_message.command.channel,
                        message |-> irc_message.command.message]>>
                     \o chat_messages
                /\ UNCHANGED user_tags
           [] irc_message.command.cmd = "GlobalUserState" ->
                /\ user_tags' = SomeTags(irc_message.tags)
                /\ UNCHANGED chat_messages
           [] OTHER -> UNCHANGED <<chat_messages, user_tags>>
  /\ UNCHANGED <<parse_call, read_log, hs, received, conn, eofRead, readerAlive, writerAlive, outq,
                 wire, submitted, nread, pc, key_event, lastPoll, total_columns, total_rows,
                 edit_mode, row, column, send_message, clipboard>>

\* irc.try_recv() returns Ok(irc_message)
DrainOne ==
  /\ hs = "ready"
  /\ pc = "drain"
  /\ inq # << >>
  /\ inq' = Tail(inq)
  /\ LET irc_message == Head(inq)
     IN  CASE irc_message.command.cmd = "Privmsg" ->
                /\ chat_messages' =
                     Append(chat_messages,
                            [tags |-> irc_message.tags,
                             prefix |-> irc_message.prefix,
                             channel |-> irc_message.command.channel,
                             message |-> irc_message.command.message])
                /\ UNCHANGED user_tags
           [] irc_message.command.cmd = "GlobalUserState" ->
                /\ user_tags' = SomeTags(irc_message.tags)
                /\ UNCHANGED chat_messages
           [] OTHER -> UNCHANGED <<chat_messages, user_tags>>
  /\ UNCHANGED <<parse_call, read_log, hs, received, conn, eofRead, readerAlive, writerAlive, outq,
                 wire, submitted, nread, pc, key_event, lastPoll, total_columns, total_rows,
                 edit_mode, row, column, send_message, clipboard>>

\* irc.try_recv() returns Err (Empty, or Disconnected once the sender is
\* dropped): the while let loop ends, draw runs, event::poll is next
DrainEnd ==
  /\ hs = "ready"
  /\ pc = "drain"
  /\ inq = << >>
  /\ lastPoll' = IF readerAlive THEN "Empty" ELSE "Disconnected"
  /\ pc' = "poll"
  /\ key_event' = NoKey
  /\ UNCHANGED <<parse_call, netVars, total_columns, total_rows, edit_mode, row, column,
                 send_message, chat_messages, user_tags, clipboard>>

(***************************************************************************)
(* main's loop: event::poll and the dispatch of one key event.             *)
(***************************************************************************)
\* event::poll(16 ms) returns false
PollNone ==
  /\ hs = "ready"
  /\ pc = "poll"
  /\ pc' = "drain"
  /\ key_event' = NoKey
  /\ UNCHANGED <<parse_call, netVars, lastPoll, total_columns, total_rows, edit_mode, row, column,
                 send_message, chat_messages, user_tags, clipboard>>

\* event::poll returns true and event::read() returns Event::Key(k)
Read(k) == hs = "ready" /\ pc = "poll" /\ key_event' = k

\* an arm that ends the iteration with these values
Edit(m, r, c, s, cb) ==
  /\ edit_mode' = m
  /\ row' = r
  /\ column' = c
  /\ send_message' = s
  /\ clipboard' = cb
  /\ pc' = "drain"
  /\ UNCHANGED <<parse_call, netVars, lastPoll, total_columns, total_rows, chat_messages, user_tags>>

\* an arm (or a `continue`) that changes nothing
Stay == Edit(edit_mode, row, column, send_message, clipboard)

\* only the cursor moves
Move(r, c) == Edit(edit_mode, r, c, send_message, clipboard)

\* an unwrap, an index or a slice panics: main unwinds
Panic ==
  /\ pc' = "panicked"
  /\ UNCHANGED <<parse_call, netVars, lastPoll, total_columns, total_rows, edit_mode, row, column,
                 send_message, chat_messages, user_tags, clipboard>>

\* the cursor is on the row the handlers treat as the compose row
OnComposeRow == row >= total_rows - 1

(***************************************************************************)
(* The arms of `match key_event.code`, in the order of the source.  An arm *)
(* with an `if` guard that fails gives way to the arms below it.           *)
(***************************************************************************)
\* KeyCode::Esc
KeyEsc ==
  /\ Read(KeyOf("Esc", FALSE))
  /\ Edit("Normal", row, column, send_message, clipboard)

\* an Enter arm that appends the local entry whether or not the send
\* succeeded
KeyEnterAlwaysAppends(ctrl) ==
  /\ Read(KeyOf("Enter", ctrl))
  /\ edit_mode = "Insert"
  /\ IF send_message # << >>
     THEN /\ Submit(RecPrivmsg(Channel, send_message))
          /\ chat_messages' = Append(chat_messages, LocalEntry)
          /\ IF SendAccepts /\ ~ctrl
             THEN send_message' = << >> /\ column' = 0
             ELSE UNCHANGED <<send_message, column>>
          /\ pc' = "drain"
          /\ UNCHANGED <<parse_call, read_log, hs, received, conn, eofRead, readerAlive,
                         writerAlive, inq, wire, nread, lastPoll, total_columns,
                         total_rows, edit_mode, row, user_tags, clipboard>>
     ELSE Stay

\* an Enter arm that clears the buffer whether or not the send succeeded
KeyEnterClearsOnError(ctrl) ==
  /\ Read(KeyOf("Enter", ctrl))
  /\ edit_mode = "Insert"
  /\ IF send_message # << >>
     THEN /\ Submit(RecPrivmsg(Channel, send_message))
          /\ IF SendAccepts
             THEN chat_messages' = Append(chat_messages, LocalEntry)
             ELSE UNCHANGED chat_messages
          /\ IF ~ctrl
             THEN send_message' = << >> /\ column' = 0
             ELSE UNCHANGED <<send_message, column>>
          /\ pc' = "drain"
          /\ UNCHANGED <<parse_call, read_log, hs, received, conn, eofRead, readerAlive, writerAlive,
                         inq, wire, nread, lastPoll, total_columns, total_rows,
                         edit_mode, row, user_tags, clipboard>>
     ELSE Stay

\* KeyCode::Enter if Insert; ctrl is modifiers.contains(CONTROL)
KeyEnter(ctrl) ==
  /\ Read(KeyOf("Enter", ctrl))
  /\ edit_mode = "Insert"
  /\ IF send_message # << >>
     THEN /\ Submit(RecPrivmsg(Channel, send_message))
          /\ IF SendAccepts
             THEN /\ chat_messages' = Append(chat_messages, LocalEntry)
                  /\ IF ~ctrl
                     THEN send_message' = << >> /\ column' = 0
                     ELSE UNCHANGED <<send_message, column>>
             ELSE UNCHANGED <<chat_messages, send_message, column>>
          /\ pc' = "drain"
          /\ UNCHANGED <<parse_call, read_log, hs, received, conn, eofRead, readerAlive, writerAlive,
                         inq, wire, nread, lastPoll, total_columns, total_rows,
                         edit_mode, row, user_tags, clipboard>>
     ELSE Stay

\* KeyCode::Backspace if Insert
KeyBackspace ==
  /\ Read(KeyOf("Backspace", FALSE))
  /\ edit_mode = "Insert"
  /\ IF column <= Len(send_message) /\ Len(send_message) > 0
     THEN Edit(edit_mode, row, saturating_sub(column, 1),
               remove(send_message, saturating_sub(column, 1)), clipboard)
     ELSE Stay

\* KeyCode::Right if Insert
KeyRight ==
  /\ Read(KeyOf("Right", FALSE))
  /\ edit_mode = "Insert"
  /\ Move(row, Min(Min(column + 1, Len(send_message)), total_columns))

\* KeyCode::Left if Insert
KeyLeft ==
  /\ Read(KeyOf("Left", FALSE))
  /\ edit_mode = "Insert"
  /\ Move(row, saturating_sub(column, 1))

\* KeyCode::End if Insert
KeyEnd ==
  /\ Read(KeyOf("End", FALSE))
  /\ edit_mode = "Insert"
  /\ Move(row, Len(send_message))

\* the codes with an arm that needs Insert
InsertOnlyCodes == {"Enter", "Backspace", "Right", "Left", "End"}

\* `_ => {}` of the outer match: an Insert-only code outside Insert, or a
\* code with no arm (Tab)
KeyUnmatched(code) ==
  /\ Read(KeyOf(code, FALSE))
  /\ \/ code \in InsertOnlyCodes /\ edit_mode # "Insert"
     \/ code = "Tab"
  /\ Stay

\* 'q' / 'c' with CONTROL: break
CharQuit(c) ==
  /\ Read(KeyOf(c, TRUE))
  /\ c \in {"q", "c"}
  /\ pc' = "exit"
  /\ UNCHANGED <<parse_call, netVars, lastPoll, total_columns, total_rows, edit_mode, row,
                 column, send_message, chat_messages, user_tags, clipboard>>

\* 'i' if Normal
CharI ==
  /\ Read(KeyOf("i", FALSE))
  /\ edit_mode = "Normal"
  /\ IF row < total_rows - 1
     THEN Edit("Insert", saturating_sub(total_rows, 1),
               graphemes_count(send_message), send_message, clipboard)
     ELSE Edit("Insert", row, column, send_message, clipboard)

\* 'h' if Normal
CharH ==
  /\ Read(KeyOf("h", FALSE))
  /\ edit_mode = "Normal"
  /\ IF OnComposeRow THEN Move(row, saturating_sub(column, 1))
     ELSE IF column >= 1 THEN Move(row, column - 1)
     ELSE IF messages_lines_start_pos > row
     THEN Move(saturating_sub(row, 1), column)
     ELSE Stay

\* 'j' if Normal
CharJ ==
  /\ Read(KeyOf("j", FALSE))
  /\ edit_mode = "Normal"
  /\ LET new_row == Min(total_rows - 1, row + 1)
     IN  IF new_row >= total_rows - 1
         THEN Move(new_row, Min(column, graphemes_count(send_message)))
         \* u16 subtraction new_row - messages_lines_start_pos
         ELSE IF new_row < messages_lines_start_pos THEN Panic
         ELSE IF ChatHas(new_row - messages_lines_start_pos)
         THEN Move(new_row,
                   Min(column,
                       message_line_len(ChatAt(new_row - messages_lines_start_pos))))
         ELSE Move(new_row, column)

\* 'k' if Normal
CharK ==
  /\ Read(KeyOf("k", FALSE))
  /\ edit_mode = "Normal"
  /\ IF messages_lines_start_pos < row /\ Len(chat_messages) > 0
     THEN Move(row - 1, column)
     ELSE Stay

\* 'l' if Normal
CharL ==
  /\ Read(KeyOf("l", FALSE))
  /\ edit_mode = "Normal"
  /\ IF OnComposeRow
     THEN IF Len(send_message) > column THEN Move(row, column + 1) ELSE Stay
     ELSE IF ~ChatHas(current_message_index) THEN Stay
     ELSE IF /\ message_line_len(ChatAt(current_message_index)) <= column
             /\ Len(chat_messages) <= row
     THEN Move(row + 1, 0)
     ELSE Move(row, column + 1)

\* the column 'b' moves to on `line`: after the last ' ' before column - 1
BackTarget(line) == rfind(Sub(line, 0, saturating_sub(column, 1)), " ") + 1

\* 'b' if Normal
CharB ==
  /\ Read(KeyOf("b", FALSE))
  /\ edit_mode = "Normal"
  /\ IF OnComposeRow
     THEN IF saturating_sub(column, 1) > Len(send_message) THEN Panic
          ELSE Move(row, BackTarget(send_message))
     ELSE IF ~ChatHas(current_message_index) THEN Stay
     ELSE IF saturating_sub(column, 1)
               > Len(message_line(ChatAt(current_message_index)))
     THEN Panic
     ELSE Move(row, BackTarget(message_line(ChatAt(current_message_index))))

\* what 'w' adds to the column on `line` of `count` graphemes, given that
\* line.get(column + 1..) is Some
ForwardStep(line, count) ==
  LET rest == From(line, column + 1)
  IN  IF find(rest, " ") # NoIdx THEN find(rest, " ") + 1
      ELSE saturating_sub(count, column)

\* 'w' if Normal
CharW ==
  /\ Read(KeyOf("w", FALSE))
  /\ edit_mode = "Normal"
  /\ IF OnComposeRow
     THEN IF column + 1 <= Len(send_message)
          THEN Move(row,
                    column + ForwardStep(send_message,
                               graphemes_count(From(send_message, column + 1))))
          ELSE Stay
     ELSE IF ~ChatHas(current_message_index) THEN Stay
     ELSE LET m == ChatAt(current_message_index)
          IN  IF column + 1 <= Len(message_line(m))
              THEN Move(row, column + ForwardStep(message_line(m),
                                                  message_line_len(m)))
              ELSE Stay

\* '$' if Normal
CharDollar ==
  /\ Read(KeyOf("$", FALSE))
  /\ edit_mode = "Normal"
  /\ IF ChatHas(current_message_index)
     THEN Move(row, message_line_len(ChatAt(current_message_index)))
     ELSE Stay

\* '^' if Normal
CharCaret ==
  /\ Read(KeyOf("^", FALSE))
  /\ edit_mode = "Normal"
  /\ Move(row, 0)

\* 'y' if Normal
CharY ==
  /\ Read(KeyOf("y", FALSE))
  /\ edit_mode = "Normal"
  /\ Edit("Y", row, column, send_message, clipboard)

\* 'd' if Normal
CharD ==
  /\ Read(KeyOf("d", FALSE))
  /\ edit_mode = "Normal"
  /\ Edit("D", row, column, send_message, clipboard)

\* c if Y; set_ok is whether clipboard.set_text returns Ok
CharInY(c, set_ok) ==
  /\ Read(KeyOf(c, FALSE))
  /\ edit_mode = "Y"
  /\ IF c = "y" /\ ChatHas(current_message_index)
     THEN IF set_ok
          THEN Edit("Normal", row, column, send_message,
                    SomeStr(ChatAt(current_message_index).message))
          ELSE Panic
     ELSE Edit("Normal", row, column, send_message, clipboard)

\* c if D
CharInD(c, set_ok) ==
  /\ Read(KeyOf(c, FALSE))
  /\ edit_mode = "D"
  /\ IF c = "d" /\ row = total_rows - 1
     THEN IF set_ok
          THEN Edit("Normal", row, 0, << >>, SomeStr(send_message))
          ELSE Panic
     ELSE Edit("Normal", row, column, send_message, clipboard)

\* 'P' if Normal; get_ok is whether clipboard.get_text can return Ok
CharP(get_ok) ==
  /\ Read(KeyOf("P", FALSE))
  /\ edit_mode = "Normal"
  /\ IF get_ok /\ clipboard.some
     THEN LET r == IF row # total_rows - 1 THEN total_rows - 1 ELSE row
              c == IF row # total_rows - 1
                   THEN graphemes_count(send_message) ELSE column
          IN  IF c > Len(send_message) THEN Panic
              ELSE Edit(edit_mode, r, c + graphemes_count(clipboard.v),
                        insert_str(send_message, c, clipboard.v), clipboard)
     ELSE Stay

\* c if Insert
CharInsert(c) ==
  /\ Read(KeyOf(c, FALSE))
  /\ edit_mode = "Insert"
  /\ IF column > Len(send_message) THEN Panic
     ELSE Edit(edit_mode, row, column + 1, insert_str(send_message, column, <<c>>),
               clipboard)

\* the characters with an arm in Normal mode
NormalChars == {"i", "h", "j", "k", "l", "b", "w", "$", "^", "y", "d", "P"}

\* `_ => {}` of the inner match: Normal mode and no arm for c
CharUnmatched(c) ==
  /\ Read(KeyOf(c, FALSE))
  /\ edit_mode = "Normal"
  /\ c \notin NormalChars
  /\ Stay

(***************************************************************************)
(* Spec: the transport.  IRC::new from the spawning of the two threads,    *)
(* then main's loop typing and sending one-letter messages.                *)
(***************************************************************************)
Init ==
  /\ read_log = << >>
  /\ parse_call = NoCall(<< >>)
  /\ hs = "start"
  /\ received = "Nothing"
  /\ conn = "open"
  /\ eofRead = FALSE
  /\ readerAlive = TRUE
  /\ writerAlive = TRUE
  /\ inq = << >>
  /\ outq = << >>
  /\ wire = << >>
  /\ submitted = << >>
  /\ nread = 0
  /\ lastPoll = "Nothing"
  /\ pc = "drain"
  /\ key_event = NoKey
  /\ total_columns = ScreenColumns
  /\ total_rows = ScreenRows
  /\ edit_mode = "Normal"
  /\ row = total_rows
  /\ column = 0
  /\ send_message = << >>
  /\ chat_messages = << >>
  /\ user_tags = NoTags
  /\ clipboard = NoneStr

\* the bound on the outbound records of a run
MaySubmit == Len(submitted) < MaxSubmitted

\* the bound on the lines the server sends in a run
MayRead == nread < MaxLines

Next ==
  \/ HsCapReq
  \/ HsRecv
  \/ HsRecvErr
  \/ HsPass
  \/ HsNick
  \/ HsJoin
  \/ \E line \in NetLines : MayRead /\ ReaderReadLine(line)
  \/ ReaderReadEof
  \/ RemoteClose
  \/ WriterWrite
  \/ WriterFail
  \/ DrainOne
  \/ DrainEnd
  \/ PollNone
  \/ CharI
  \/ Len(send_message) < MaxTyped /\ CharInsert("a")
  \/ \E ctrl \in BOOLEAN : MaySubmit /\ KeyEnter(ctrl)

Spec == Init /\ [][Next]_vars

(***************************************************************************)
(* Properties of the transport, checked under Spec.                        *)
(***************************************************************************)
IsPrefix(a, b) == Len(a) <= Len(b) /\ SubSeq(b, 1, Len(a)) = a

\* the records of a completed handshake, in order
HandshakeRecords ==
  <<RecCapReq, RecPass(AuthToken), RecNick(Nick), RecJoin(Channel)>>

\* C1: the records written to the socket are the accepted records in
\* submission order: the wire is a prefix of what was submitted, and while
\* the writer is alive the wire followed by the queue is exactly what was
\* submitted (nothing reordered, duplicated, merged or skipped).
C1_WireIsSubmissionOrder ==
  /\ IsPrefix(wire, submitted)
  /\ writerAlive => wire \o outq = submitted

\* C1 witness: the four handshake records and a PRIVMSG of main's loop are
\* on the wire, with another PRIVMSG still queued.
C1_Witness ==
  /\ Len(wire) = 5
  /\ wire[5] = RecPrivmsg(Channel, <<"a">>)
  /\ Len(outq) = 1

\* C2: when IRC::new has returned a Session, the first four accepted
\* records are CAP REQ, PASS, NICK, JOIN in this order; and a PASS record
\* is among the accepted records only if the first event taken from the
\* inbound queue was a CapAck.
C2_HandshakeOrder ==
  /\ hs = "ready" =>
       /\ Len(submitted) >= 4
       /\ SubSeq(submitted, 1, 4) = HandshakeRecords
  /\ (\E i \in 1..Len(submitted) : submitted[i] = RecPass(AuthToken)) =>
       received = "CapAck"

\* C2 witness: IRC::new returned a Session while the writer has yet to
\* write the JOIN record.
C2_Witness == hs = "ready" /\ Len(wire) = 3 /\ writerAlive

\* C3: when recv_timeout returned anything but a CapAck (a timeout, a
\* disconnect, an event of another kind), IRC::new has returned Err and the
\* capability request is the only record ever accepted.
C3_NoAckNoLogin ==
  received \notin {"Nothing", "CapAck"} =>
    hs = "failed" /\ submitted = <<RecCapReq>>

\* C3 witness: the reader died on a malformed line before any ack, the
\* handshake found the queue disconnected, and the writer went on to write
\* the capability request.
C3_Witness ==
  received = "Disconnected" /\ hs = "failed" /\ wire = <<RecCapReq>>

\* C4 as claimed: once read_line has returned Ok(0) the reader thread has
\* ended, and a try_recv that finds the queue empty after that reports
\* Disconnected.
C4_EofEndsReader ==
  [][/\ eofRead' => ~readerAlive'
     /\ (eofRead /\ pc = "drain" /\ pc' = "poll") => lastPoll' = "Disconnected"]_vars

\* C5 as claimed: no line makes the parser panic, so the reader thread is
\* alive for as long as its receiver exists.
C5_ParsingNeverAborts == ~ReceiverDropped => readerAlive

\* C6 as claimed: once the connection is closed (and the reader has seen
\* it), a send_message call is refused: Enter in Insert mode on a non-empty
\* buffer submits nothing.
C6_SendFailsAfterClose ==
  [][(/\ conn = "closed"
      /\ eofRead
      /\ send_message # << >>
      /\ \E ctrl \in BOOLEAN : KeyEnter(ctrl)) => submitted' = submitted]_vars

(***************************************************************************)
(* SpecUI: main's loop from the return of IRC::new, the writer having yet  *)
(* to write the JOIN record, with every key arm and a small terminal.  The *)
(* writer is scheduled only to fail.                                       *)
(***************************************************************************)
InitUI ==
  /\ read_log = <<LineAck>>
  /\ parse_call = NoCall(<< >>)
  /\ hs = "ready"
  /\ received = "CapAck"
  /\ conn = "open"
  /\ eofRead = FALSE
  /\ readerAlive = TRUE
  /\ writerAlive = TRUE
  /\ inq = << >>
  /\ outq = <<RecJoin(Channel)>>
  /\ wire = SubSeq(HandshakeRecords, 1, 3)
  /\ submitted = HandshakeRecords
  /\ nread = 1
  /\ lastPoll = "Nothing"
  /\ pc = "drain"
  /\ key_event = NoKey
  /\ total_columns = ScreenColumns
  /\ total_rows = ScreenRows
  /\ edit_mode = "Normal"
  /\ row = total_rows
  /\ column = 0
  /\ send_message = << >>
  /\ chat_messages = << >>
  /\ user_tags = NoTags
  /\ clipboard = NoneStr

\* the lines the server sends once the session is up
UILines == {LinePrivmsg, LineGlobalUserState}

\* the characters typed in Insert mode, and after a pending 'y' or 'd'
TypedChars == {"a"}
PendingChars == {"y", "d", "a"}

\* the bounds on the scrollback, the compose buffer and the column
ChatRoom == Len(chat_messages) + Len(inq) < MaxChat
SendRoom == Len(submitted) < Len(HandshakeRecords) + MaxLocal
ComposeRoom == Len(send_message) < MaxCompose
PasteRoom == Len(send_message) + Len(clipboard.v) <= MaxCompose
ColumnRoom == column < MaxColumn

NextUI ==
  \/ \E line \in UILines : ChatRoom /\ MayRead /\ ReaderReadLine(line)
  \/ WriterFail
  \/ DrainOne
  \/ DrainEnd
  \/ KeyEsc
  \/ \E ctrl \in BOOLEAN : ChatRoom /\ SendRoom /\ KeyEnter(ctrl)
  \/ KeyBackspace
  \/ KeyRight
  \/ KeyLeft
  \/ KeyEnd
  \/ \E code \in InsertOnlyCodes \cup {"Tab"} : KeyUnmatched(code)
  \/ \E c \in {"q", "c"} : CharQuit(c)
  \/ CharI
  \/ CharH
  \/ CharJ
  \/ CharK
  \/ ColumnRoom /\ CharL
  \/ CharB
  \/ ColumnRoom /\ CharW
  \/ CharDollar
  \/ CharCaret
  \/ CharY
  \/ CharD
  \/ \E c \in PendingChars, set_ok \in BOOLEAN : CharInY(c, set_ok)
  \/ \E c \in PendingChars, set_ok \in BOOLEAN : CharInD(c, set_ok)
  \/ \E get_ok \in BOOLEAN : PasteRoom /\ CharP(get_ok)
  \/ \E c \in TypedChars : ComposeRoom /\ CharInsert(c)
  \/ \E c \in TypedChars : CharUnmatched(c)
  \/ PollNone

SpecUI == InitUI /\ [][NextUI]_vars

(***************************************************************************)
(* Properties of the interaction loop, checked under SpecUI.               *)
(***************************************************************************)
\* event::read() returned a key event and its arm ran to the end of the
\* iteration (no break, no panic)
KeyEvent == pc = "poll" /\ key_event' # NoKey /\ pc' = "drain"

\* a Normal-mode motion key ran to the end of the iteration
MotionKeys == {"h", "j", "k", "l", "w", "b", "^", "$"}
MotionKey ==
  /\ KeyEvent
  /\ edit_mode = "Normal"
  /\ key_event'.code \in MotionKeys

\* the length of the line the cursor row addresses: the compose buffer on
\* the last row, the rendered line of chat_messages[row - firstMessageRow]
\* on a scrollback row
AddressedLineLen ==
  IF row = total_rows - 1 THEN graphemes_count(send_message)
  ELSE IF ChatHas(row - messages_lines_start_pos)
  THEN message_line_len(ChatAt(row - messages_lines_start_pos))
  ELSE 0

CursorInRange ==
  /\ 0 <= column
  /\ column <= AddressedLineLen
  /\ messages_lines_start_pos <= row
  /\ row <= total_rows - 1

\* C7 as claimed: in mode Y or D, a key event of any kind leaves the mode
\* Normal.
C7_PendingRevertsToNormal ==
  [][(edit_mode \in {"Y", "D"} /\ KeyEvent) => edit_mode' = "Normal"]_vars

\* C8 as claimed: after a Normal-mode motion key the column is within the
\* addressed line and the row within [firstMessageRow, lastRow].
C8_CursorInvariant == [][MotionKey => CursorInRange']_vars

\* C9 as claimed: with the cursor on the compose row and the first d taken,
\* the second d (the clipboard working) leaves the compose buffer empty,
\* the column 0, the clipboard equal to the old buffer and the mode Normal.
C9_DdCutsCompose ==
  [][(/\ KeyEvent
      /\ edit_mode = "D"
      /\ OnComposeRow
      /\ key_event'.code = "d") =>
       /\ send_message' = << >>
       /\ column' = 0
       /\ clipboard' = SomeStr(send_message)
       /\ edit_mode' = "Normal"]_vars

\* the author draw prints for an entry attributed to the user now
SelfAuthor ==
  IF user_tags.some /\ LitDisplayName \in DOMAIN user_tags.v
  THEN user_tags.v[LitDisplayName]
  ELSE Nick

\* C10 (checked under Spec, from the handshake on): Enter in Insert mode
\* on a non-empty buffer T with the writer alive
\* submits exactly the record PRIVMSG #channel :T and appends exactly one
\* entry, with text T, the remembered tags and the nickname as user, so
\* that its line reads "<display-name or nick>: T"; without CONTROL the
\* buffer is then empty and the column 0, with CONTROL the buffer is kept.
\* The remembered tags change only when a GlobalUserState event is drained,
\* and are then that event's tags.
C10_EnterSendsAndAppends ==
  [][/\ (/\ KeyEvent
          /\ edit_mode = "Insert"
          /\ send_message # << >>
          /\ writerAlive
          /\ key_event'.code = "Enter") =>
            /\ submitted' = Append(submitted, RecPrivmsg(Channel, send_message))
            /\ outq' = Append(outq, RecPrivmsg(Channel, send_message))
            /\ Len(chat_messages') = Len(chat_messages) + 1
            /\ SubSeq(chat_messages', 1, Len(chat_messages)) = chat_messages
            /\ LET entry == chat_messages'[Len(chat_messages')]
               IN  /\ entry.message = send_message
                   /\ entry.tags = IF user_tags.some THEN user_tags.v ELSE EmptyTags
                   /\ entry.prefix.user = SomeStr(Nick)
                   /\ message_line(entry) = SelfAuthor \o <<":", " ">> \o send_message
            /\ ~key_event'.ctrl => send_message' = << >> /\ column' = 0
            /\ key_event'.ctrl => send_message' = send_message /\ column' = column
     /\ user_tags' # user_tags =>
          /\ pc = "drain"
          /\ inq # << >>
          /\ Head(inq).command = CmdGlobalUserState
          /\ user_tags' = SomeTags(Head(inq).tags)]_vars

\* C10 witness: a GlobalUserState was drained, then "a" was sent without
\* CONTROL: one entry reading "Me: a", an empty buffer, the record queued.
C10_Witness ==
  /\ Len(chat_messages) = 1
  /\ message_line(chat_messages[1]) = <<"M", "e", ":", " ", "a">>
  /\ send_message = << >>
  /\ column = 0
  /\ edit_mode = "Insert"
  /\ outq = <<RecJoin(Channel), RecPrivmsg(Channel, <<"a">>)>>

(***************************************************************************)
(* Send failure, checked under Spec.                                       *)
(***************************************************************************)
\* C11: when Enter is pressed in Insert mode on a non-empty buffer and
\* send_message returns Err (the writer thread is gone), the buffer and the
\* column are unchanged, nothing is appended to the scrollback or accepted
\* by the outbound channel, and the iteration ends normally, so that the
\* loop polls for the next key.
C11_SendFailureSwallowed ==
  [][(/\ pc = "poll"
      /\ key_event'.code = "Enter"
      /\ edit_mode = "Insert"
      /\ send_message # << >>
      /\ ~writerAlive) =>
       /\ send_message' = send_message
       /\ column' = column
       /\ chat_messages' = chat_messages
       /\ submitted' = submitted
       /\ edit_mode' = edit_mode
       /\ pc' = "drain"]_vars

\* C11 witness: Enter was just dispatched on the buffer "a" with the writer
\* gone: the buffer is kept and the scrollback is empty.
C11_Witness ==
  /\ key_event = KeyOf("Enter", FALSE)
  /\ pc = "drain"
  /\ ~writerAlive
  /\ edit_mode = "Insert"
  /\ send_message = <<"a">>
  /\ column = 1
  /\ chat_messages = << >>

(***************************************************************************)
(* draw: the commands it queues for the scrollback, as (row, text) pairs.  *)
(* main calls it at the end of every drain with the state the drain left.  *)
(***************************************************************************)
\* chat_messages.len().saturating_sub(total_rows as usize)
messages_start(chat, rows) == saturating_sub(Len(chat), rows)

\* total_rows.saturating_sub(chat_messages.len() as u16).saturating_sub(1)
first_message_pos(chat, rows) ==
  saturating_sub(saturating_sub(rows, Len(chat)), 1)

\* for (i, message) in chat_messages[messages_start..].iter().enumerate():
\* the i-th Print happens with the cursor on row first_message_pos + i
draw(chat, rows) ==
  [i \in 1..(Len(chat) - messages_start(chat, rows)) |->
     [row  |-> first_message_pos(chat, rows) + (i - 1),
      line |-> message_line(chat[messages_start(chat, rows) + i])]]

\* C12 as claimed: the draw at the end of a drain prints exactly
\* min(N, screenRows - 1) entries, the most recent ones, oldest first, from
\* firstMessageRow downwards, and none on the compose row total_rows - 1.
C12_DrawShowsMostRecent ==
  [][(pc = "drain" /\ pc' = "poll") =>
       LET printed == draw(chat_messages, total_rows)
           N == Len(chat_messages)
           shown == Min(N, total_rows - 1)
       IN  /\ Len(printed) = shown
           /\ \A i \in 1..Len(printed) :
                 /\ N - shown + i \in 1..N
                 /\ printed[i].line = message_line(chat_messages[N - shown + i])
                 /\ printed[i].row = messages_lines_start_pos + (i - 1)
                 /\ printed[i].row # total_rows - 1]_vars

(***************************************************************************)
(* The scrollback as a log, checked under SpecUI.                          *)
(***************************************************************************)
\* C13: in every step the old scrollback is a prefix of the new one, which
\* is at most one entry longer; and it grows only when the drain takes a
\* Privmsg event (the new entry carrying its tags, prefix and text) or when
\* Enter in Insert mode has its record accepted by the outbound channel.
C13_ScrollbackAppendOnly ==
  [][/\ IsPrefix(chat_messages, chat_messages')
     /\ Len(chat_messages') <= Len(chat_messages) + 1
     /\ chat_messages' # chat_messages =>
          LET entry == chat_messages'[Len(chat_messages')]
          IN  \/ /\ pc = "drain"
                 /\ inq # << >>
                 /\ Head(inq).command.cmd = "Privmsg"
                 /\ entry.message = Head(inq).command.message
                 /\ entry.tags = Head(inq).tags
                 /\ entry.prefix = Head(inq).prefix
              \/ /\ pc = "poll"
                 /\ key_event'.code = "Enter"
                 /\ edit_mode = "Insert"
                 /\ writerAlive
                 /\ submitted' = Append(submitted, RecPrivmsg(Channel, send_message))
                 /\ entry.message = send_message]_vars

\* C13 witness: a local entry below a received one, after a key that is
\* neither Enter nor a drain step (Esc) left both in place.
C13_Witness ==
  /\ Len(chat_messages) = 2
  /\ chat_messages[1].prefix.nick = SomeStr(<<"n">>)
  /\ chat_messages[2].prefix.nick = SomeStr(Nick)
  /\ key_event = KeyOf("Esc", FALSE)

(***************************************************************************)
(* SpecParse: the three parsers called in sequence on one line, as         *)
(* IRCMessage::parse and the unit tests call them: Tags::parse at *pos =   *)
(* 0, Prefix::parse at the cursor Tags::parse left, IRCCommand::parse at   *)
(* the cursor Prefix::parse left.  The line is any tag block (or none)     *)
(* followed by a prefix and a command.                                     *)
(***************************************************************************)
\* the tag blocks "", "@a=b ", "@a=b;c=d ", "@a=;c=d "
TagBlocks ==
  {<< >>,
   <<"@", "a", "=", "b", " ">>,
   <<"@", "a", "=", "b", ";", "c", "=", "d", " ">>,
   <<"@", "a", "=", ";", "c", "=", "d", " ">>}

\* the prefixes ":h ", ":n!u@h ", ":nn!u@hh "
Prefixes ==
  {<<":", "h", " ">>,
   <<":", "n", "!", "u", "@", "h", " ">>,
   <<":", "n", "n", "!", "u", "@", "h", "h", " ">>}

\* the command texts "PRIVMSG #c :x\r\n", "PRIVMSG #cc :a!b@c", "PRIVMSG #c :y!\r\n",
\* "GLOBALUSERSTATE\r\n", "X\r\n", "PRIVMSG #c :x:#y\r\n"
Commands ==
  {<<"P", "R", "I", "V", "M", "S", "G", " ", "#", "c", " ", ":", "x", "\r", "\n">>,
   <<"P", "R", "I", "V", "M", "S", "G", " ", "#", "c", "c", " ", ":", "a", "!", "b", "@", "c">>,
   <<"P", "R", "I", "V", "M", "S", "G", " ", "#", "c", " ", ":", "y", "!", "\r", "\n">>,
   <<"G", "L", "O", "B", "A", "L", "U", "S", "E", "R", "S", "T", "A", "T", "E", "\r", "\n">>,
   <<"X", "\r", "\n">>,
   <<"P", "R", "I", "V", "M", "S", "G", " ", "#", "c", " ", ":", "x", ":", "#", "y", "\r", "\n">>}

ParseLines == {t \o p \o c : t \in TagBlocks, p \in Prefixes, c \in Commands}

\* the part of a call that leaves the rest of the program alone
ParseStep(fn) ==
  /\ parse_call'.fn = fn
  /\ parse_call'.raw_message = parse_call.raw_message
  /\ UNCHANGED <<netVars, uiVars>>

\* let tags = Tags::parse(raw_message, &mut pos)
ParseTags ==
  /\ parse_call.fn = "start"
  /\ LET t == TagsParse(parse_call.raw_message, parse_call.pos)
     IN  parse_call' = [parse_call EXCEPT !.fn = "Tags", !.pos = t.pos,
                                          !.kind = t.kind, !.tags = t.tags]
  /\ ParseStep("Tags")

\* let prefix = Prefix::parse(raw_message, &mut pos), Tags::parse having
\* returned Some or None
ParsePrefix ==
  /\ parse_call.fn = "Tags"
  /\ parse_call.kind # "Panic"
  /\ LET q == PrefixParse(parse_call.raw_message, parse_call.pos)
     IN  parse_call' = [parse_call EXCEPT !.fn = "Prefix", !.pos = q.pos,
                                          !.kind = q.kind, !.prefix = q.prefix]
  /\ ParseStep("Prefix")

\* let command = IRCCommand::parse(raw_message, &mut pos), Prefix::parse
\* having returned Some
ParseCommand ==
  /\ parse_call.fn = "Prefix"
  /\ parse_call.kind = "Some"
  /\ LET c == CommandParse(parse_call.raw_message, parse_call.pos)
     IN  parse_call' = [parse_call EXCEPT !.fn = "Command",
                                          !.kind = c.kind, !.command = c.command]
  /\ ParseStep("Command")

InitParse ==
  /\ read_log = << >>
  /\ \E line \in ParseLines : parse_call = NoCall(line)
  /\ hs = "start"
  /\ received = "Nothing"
  /\ conn = "open"
  /\ eofRead = FALSE
  /\ readerAlive = TRUE
  /\ writerAlive = TRUE
  /\ inq = << >>
  /\ outq = << >>
  /\ wire = << >>
  /\ submitted = << >>
  /\ nread = 0
  /\ lastPoll = "Nothing"
  /\ pc = "drain"
  /\ key_event = NoKey
  /\ total_columns = ScreenColumns
  /\ total_rows = ScreenRows
  /\ edit_mode = "Normal"
  /\ row = total_rows
  /\ column = 0
  /\ send_message = << >>
  /\ chat_messages = << >>
  /\ user_tags = NoTags
  /\ clipboard = NoneStr

NextParse == ParseTags \/ ParsePrefix \/ ParseCommand

SpecParse == InitParse /\ [][NextParse]_vars

(***************************************************************************)
(* Properties of the parsers, checked under SpecParse.                     *)
(***************************************************************************)
\* the mapping a tag block "@k1=v1;k2=v2 " at the start of a line stands
\* for: the pieces between the '@' and the first space, split at '='
ClaimedTags(raw_message) ==
  TagMap(split(Sub(raw_message, 1, find(raw_message, " ")), ";"))

\* C14 as claimed: after Tags::parse on a line that starts with a
\* well-formed tag block, the result is Some mapping with exactly the keys
\* k1, k2, ... (none of them carrying the '@') each mapped to its value,
\* and the cursor is just past the separating space.
C14_TagsParseKeys ==
  (parse_call.fn = "Tags" /\ starts_with(parse_call.raw_message, <<"@">>)) =>
     /\ parse_call.kind = "Some"
     /\ parse_call.tags = ClaimedTags(parse_call.raw_message)
     /\ \A k \in DOMAIN parse_call.tags : ~starts_with(k, <<"@">>)
     /\ parse_call.pos = find(parse_call.raw_message, " ") + 1

\* the prefix span of the call Prefix::parse is about to make: the text from
\* the cursor up to (not including) the first space after it
PrefixSpan ==
  LET rest == From(parse_call.raw_message, parse_call.pos)
  IN  Sub(rest, 0, find(rest, " "))

\* Prefix::parse is called now, on a cursor that stands on ':' with a space
\* somewhere after it
PrefixCall ==
  /\ parse_call.fn = "Tags"
  /\ parse_call'.fn = "Prefix"
  /\ starts_with(From(parse_call.raw_message, parse_call.pos), <<":">>)
  /\ find(From(parse_call.raw_message, parse_call.pos), " ") # NoIdx

\* C15 as claimed: for a prefix ":host " with no '!' inside the span,
\* whatever follows it on the line, Prefix::parse returns Some prefix with
\* nick and user absent and host the text between ':' and the space.
C15_PrefixHostOnly ==
  [][(PrefixCall /\ find(PrefixSpan, "!") = NoIdx) =>
       /\ parse_call'.kind = "Some"
       /\ parse_call'.prefix.nick = NoneStr
       /\ parse_call'.prefix.user = NoneStr
       /\ parse_call'.prefix.host = From(PrefixSpan, 1)]_vars

\* C16: for a prefix ":nick!user@host " at the cursor, wherever the cursor
\* stands (after a tag block or at 0), Prefix::parse returns Some prefix
\* with nick the text between ':' and '!', user the text between '!' and
\* '@', host the text between '@' and the space, and leaves the cursor on
\* the first character after that space.
C16_PrefixNickUserHost ==
  [][LET bang == find(PrefixSpan, "!")
         at == find(PrefixSpan, "@")
     IN  (PrefixCall /\ bang # NoIdx /\ at > bang) =>
           /\ parse_call'.kind = "Some"
           /\ parse_call'.prefix.nick = SomeStr(Sub(PrefixSpan, 1, bang))
           /\ parse_call'.prefix.user = SomeStr(Sub(PrefixSpan, bang + 1, at))
           /\ parse_call'.prefix.host = From(PrefixSpan, at + 1)
           /\ parse_call'.pos = parse_call.pos + Len(PrefixSpan) + 1
           /\ parse_call.raw_message[parse_call'.pos] = " "
           /\ From(parse_call.raw_message, parse_call'.pos) \in Commands]_vars

\* C16 witness: Prefix::parse has returned nn, u, hh for the line
\* "@a=b;c=d :nn!u@hh ...", called at cursor 9 and leaving it at 18.
C16_Witness ==
  /\ parse_call.fn = "Prefix"
  /\ parse_call.kind = "Some"
  /\ starts_with(parse_call.raw_message, <<"@", "a", "=", "b", ";">>)
  /\ parse_call.prefix = [nick |-> SomeStr(<<"n", "n">>),
                          user |-> SomeStr(<<"u">>),
                          host |-> <<"h", "h">>]
  /\ parse_call.pos = 18

\* the text after "PRIVMSG " of the command IRCCommand::parse is about to
\* be called on
PrivmsgBody ==
  From(From(parse_call.raw_message, parse_call.pos), Len(LitPrivmsg))

\* IRCCommand::parse is called now, on a command "PRIVMSG #<chan> :<text>"
PrivmsgCall ==
  /\ parse_call.fn = "Prefix"
  /\ parse_call'.fn = "Command"
  /\ starts_with(From(parse_call.raw_message, parse_call.pos), LitPrivmsg)
  /\ starts_with(PrivmsgBody, <<"#">>)
  /\ find(PrivmsgBody, ":") >= 2
  /\ PrivmsgBody[find(PrivmsgBody, ":")] = " "

\* C17: for a command "PRIVMSG #<chan> :<text>", IRCCommand::parse returns
\* Some Privmsg whose channel is the text between the '#' and the space
\* before the first ':' and whose message is everything after that ':' to
\* the end of the line, its trailing \r\n included when the line has one.
C17_PrivmsgChannelAndText ==
  [][PrivmsgCall =>
       LET colon == find(PrivmsgBody, ":")
           text == From(PrivmsgBody, colon + 1)
       IN  /\ parse_call'.kind = "Some"
           /\ parse_call'.command = CmdPrivmsg(Sub(PrivmsgBody, 1, colon - 1), text)
           /\ PrivmsgBody = <<"#">> \o parse_call'.command.channel
                               \o <<" ", ":">> \o parse_call'.command.message
           /\ (Len(PrivmsgBody) >= 2 /\ From(PrivmsgBody, Len(PrivmsgBody) - 2) = CRLF)
                 => From(parse_call'.command.message,
                         Len(parse_call'.command.message) - 2) = CRLF]_vars

\* C17 witness: IRCCommand::parse has returned channel "c" and text
\* "x\r\n" for "... PRIVMSG #c :x\r\n", called behind a tag block and a
\* prefix.
C17_Witness ==
  /\ parse_call.fn = "Command"
  /\ parse_call.kind = "Some"
  /\ parse_call.pos > 0
  /\ starts_with(parse_call.raw_message, <<"@">>)
  /\ parse_call.command = CmdPrivmsg(<<"c">>, <<"x", "\r", "\n">>)

(***************************************************************************)
(* More properties of the interaction loop, checked under SpecUI.          *)
(***************************************************************************)
\* the second key of yy or dd, or P, is dispatched and the clipboard call
\* the arm makes (if it makes one) returns Err
ClipboardFails ==
  \/ CharInY("y", FALSE)
  \/ CharInD("d", FALSE)
  \/ CharP(FALSE)

\* C18 as claimed: when the clipboard returns an error during yy, dd or P,
\* the buffer, the cursor and the scrollback are unchanged, the iteration
\* ends normally (the loop keeps running) and the mode is Normal.
C18_ClipboardErrorIsNoOp ==
  [][ClipboardFails =>
       /\ send_message' = send_message
       /\ row' = row
       /\ column' = column
       /\ chat_messages' = chat_messages
       /\ pc' = "drain"
       /\ edit_mode' = "Normal"]_vars

\* C19 as claimed: Backspace in Insert mode leaves the buffer and the
\* column unchanged at column 0, and at a column c > 0 removes exactly the
\* character at position c - 1 and sets the column to c - 1.
C19_BackspaceDeletesBefore ==
  [][(/\ pc = "poll"
      /\ key_event'.code = "Backspace"
      /\ edit_mode = "Insert") =>
       IF column = 0
       THEN send_message' = send_message /\ column' = 0
       ELSE /\ send_message' = SubSeq(send_message, 1, column - 1)
                                 \o SubSeq(send_message, column + 1, Len(send_message))
            /\ Len(send_message') = Len(send_message) - 1
            /\ column' = column - 1]_vars

\* C20 as claimed: i in Normal mode sets the mode to Insert, the row to the
\* compose row total_rows - 1 and the column to the length of the compose
\* buffer; whenever the mode is Insert the cursor is on the compose row; and
\* a key dispatched in Insert mode leaves every scrollback entry as it was.
C20_InsertTargetsCompose ==
  [][/\ (pc = "poll" /\ edit_mode = "Normal" /\ key_event'.code = "i") =>
          /\ edit_mode' = "Insert"
          /\ row' = total_rows - 1
          /\ column' = graphemes_count(send_message)
     /\ edit_mode' = "Insert" => row' = total_rows' - 1
     /\ (pc = "poll" /\ edit_mode = "Insert" /\ key_event' # NoKey) =>
          IsPrefix(chat_messages, chat_messages')]_vars

\* the full text of the line the cursor row addresses: the compose buffer on
\* the compose row, the rendered line of the addressed entry on a
\* scrollback row
AddressedLine ==
  IF row = total_rows - 1 THEN send_message
  ELSE message_line(ChatAt(row - messages_lines_start_pos))

\* C21 as claimed: the second y of y, y (the clipboard working) sets the
\* clipboard to the full text of the addressed line: the rendered
\* "author: text" line of the entry on a scrollback row, the compose buffer
\* on the compose row.
C21_YyCopiesAddressedLine ==
  [][(/\ KeyEvent
      /\ edit_mode = "Y"
      /\ key_event'.code = "y"
      /\ row = total_rows - 1 \/ ChatHas(row - messages_lines_start_pos)) =>
       clipboard' = SomeStr(AddressedLine)]_vars

\* C23 as claimed: no key event makes the controller crash on an index
\* (a panic of a clipboard unwrap apart): in particular a character typed
\* in Insert mode is inserted at a column that is at most the length of the
\* compose buffer.
C23_NoIndexCrash ==
  [][/\ (pc = "poll" /\ key_event' # NoKey /\ ~ClipboardFails) =>
          pc' # "panicked"
     /\ (pc = "poll" /\ edit_mode = "Insert" /\ key_event'.code \in TypedChars) =>
          column <= Len(send_message)]_vars

(***************************************************************************)
(* SpecScroll: main's loop over a scrollback that is already there.  The   *)
(* session is up, the server has sent some PRIVMSG lines and the drain has *)
(* appended them; the screen has ScreenRows..MaxScreenRows rows.  The user *)
(* moves the cursor with j and k and yanks with y, y; draw runs at the end *)
(* of every drain.                                                         *)
(***************************************************************************)
\* the Privmsg the drain appends for the line the reader parsed
RemoteEntry(line) ==
  LET m == MessageParse(line).msg
  IN  [tags |-> m.tags, prefix |-> m.prefix,
       channel |-> m.command.channel, message |-> m.command.message]

ShownEntries == {RemoteEntry(LinePrivmsg), RemoteEntry(LinePrivmsgNoTags)}

Scrollbacks == UNION {[1..n -> ShownEntries] : n \in 0..MaxShown}

InitScroll ==
  /\ parse_call = NoCall(<< >>)
  /\ hs = "ready"
  /\ received = "CapAck"
  /\ conn = "open"
  /\ eofRead = FALSE
  /\ readerAlive = TRUE
  /\ writerAlive = TRUE
  /\ inq = << >>
  /\ outq = << >>
  /\ wire = HandshakeRecords
  /\ submitted = HandshakeRecords
  /\ chat_messages \in Scrollbacks
  /\ nread = 1 + Len(chat_messages)
  /\ read_log = <<LineAck>> \o [i \in 1..Len(chat_messages) |->
                                  IF chat_messages[i] = RemoteEntry(LinePrivmsg)
                                  THEN LinePrivmsg ELSE LinePrivmsgNoTags]
  /\ lastPoll = "Empty"
  /\ pc = "drain"
  /\ key_event = NoKey
  /\ total_columns = ScreenColumns
  /\ total_rows \in ScreenRows..MaxScreenRows
  /\ edit_mode = "Normal"
  /\ row = total_rows
  /\ column = 0
  /\ send_message = << >>
  /\ user_tags = NoTags
  /\ clipboard = NoneStr

NextScroll ==
  \/ DrainEnd
  \/ CharJ
  \/ CharK
  \/ CharY
  \/ \E set_ok \in BOOLEAN : CharInY("y", set_ok)

SpecScroll == InitScroll /\ [][NextScroll]_vars

\* the rows draw prints an entry on
DrawnRows == {draw(chat_messages, total_rows)[i].row :
                i \in DOMAIN draw(chat_messages, total_rows)}

\* the index in chat_messages (from 1) of the entry draw prints on row r
DrawnIndex(r) ==
  CHOOSE n \in 1..Len(chat_messages) :
    /\ n - messages_start(chat_messages, total_rows) \in
         DOMAIN draw(chat_messages, total_rows)
    /\ draw(chat_messages, total_rows)[n - messages_start(chat_messages, total_rows)].row = r

\* C22 as claimed: when y, y is completed with the cursor on a row draw
\* printed an entry on, the entry the controller addresses
\* (chat_messages[row - firstMessageRow]) is the entry draw printed on that
\* row, and it is the one whose text reaches the clipboard; also when the
\* scrollback has more entries than the screen has rows.
C22_AddressedIsDrawn ==
  [][(/\ KeyEvent
      /\ edit_mode = "Y"
      /\ key_event'.code = "y"
      /\ row \in DrawnRows) =>
       /\ ChatHas(current_message_index)
       /\ current_message_index + 1 = DrawnIndex(row)
       /\ clipboard' = SomeStr(chat_messages[DrawnIndex(row)].message)]_vars

(***************************************************************************)
(* The scrollback against the two channels, checked under Spec.            *)
(***************************************************************************)
\* an entry main pushed in the Enter arm (its prefix host is "idk")
IsLocal(entry) == entry.prefix.host = <<"i", "d", "k">>

\* the locally attributed entries of the scrollback, in order
LocalEntries == SelectSeq(chat_messages, IsLocal)

\* the PRIVMSG records the outbound channel accepted, in order
IsPrivmsgRecord(record) == starts_with(record, LitPrivmsg)
AcceptedPrivmsgs == SelectSeq(submitted, IsPrivmsgRecord)

\* C24: the locally attributed entries correspond one-to-one and in order
\* to the PRIVMSG records the outbound channel accepted: the i-th local
\* entry has the text of the i-th accepted record, and there are as many
\* of the one as of the other.
C24_LocalEntriesAreAccepted ==
  /\ Len(LocalEntries) = Len(AcceptedPrivmsgs)
  /\ \A i \in 1..Len(LocalEntries) :
        AcceptedPrivmsgs[i] = RecPrivmsg(Channel, LocalEntries[i].message)

\* C24 witness: two sent messages with a received one between them in the
\* scrollback, and two PRIVMSG records accepted after the handshake.
C24_Witness ==
  /\ Len(chat_messages) = 3
  /\ IsLocal(chat_messages[1])
  /\ ~IsLocal(chat_messages[2])
  /\ IsLocal(chat_messages[3])
  /\ Len(submitted) = Len(HandshakeRecords) + 2

(***************************************************************************)
(* The reader thread against the controller tick: the whole session from   *)
(* the handshake on, with the server sending up to MaxRead lines while the *)
(* loop drains, polls and sends.  Checked under SpecInbound.               *)
(***************************************************************************)
\* the lines the server sends: the well-formed ones and one parse drops
InboundLines == WellFormedLines \cup {LineNoPrefix}

MayReadInbound == nread < MaxRead

NextInbound ==
  \/ HsCapReq
  \/ HsRecv
  \/ HsRecvErr
  \/ HsPass
  \/ HsNick
  \/ HsJoin
  \/ \E line \in InboundLines : MayReadInbound /\ ReaderReadLine(line)
  \/ DrainOne
  \/ DrainEnd
  \/ PollNone
  \/ CharI
  \/ Len(send_message) < MaxTyped /\ CharInsert("a")
  \/ \E ctrl \in BOOLEAN : SendRoom /\ KeyEnter(ctrl)

SpecInbound == Init /\ [][NextInbound]_vars

\* the line IRCMessage::parse turned into an event
IsParsed(line) == MessageParse(line).kind = "Some"

\* the line whose event is IRCCommand::CapAck
IsAckLine(line) == IsParsed(line) /\ MessageParse(line).msg.command = CmdCapAck

\* the line whose event is IRCCommand::Privmsg
IsPrivmsgLine(line) ==
  IsParsed(line) /\ MessageParse(line).msg.command.cmd = "Privmsg"

\* the lines read after the first CapabilityAck line, in order
AfterAck ==
  LET acks == {i \in 1..Len(read_log) : IsAckLine(read_log[i])}
  IN  IF acks = {} THEN << >>
      ELSE LET first == CHOOSE i \in acks : \A j \in acks : i <= j
           IN  SubSeq(read_log, first + 1, Len(read_log))

\* the entries the drain appends for the PRIVMSG lines of `lines`, in order
EntriesOf(lines) ==
  LET privmsgs == SelectSeq(lines, IsPrivmsgLine)
  IN  [i \in 1..Len(privmsgs) |-> RemoteEntry(privmsgs[i])]

\* the server-originated entries of the scrollback, in order
IsRemote(entry) == ~IsLocal(entry)
RemoteEntries == SelectSeq(chat_messages, IsRemote)

\* the entries the drain will append for the events still in the queue
IsPrivmsgEvent(irc_message) == irc_message.command.cmd = "Privmsg"
PendingEntries ==
  LET events == SelectSeq(inq, IsPrivmsgEvent)
  IN  [i \in 1..Len(events) |->
         [tags |-> events[i].tags, prefix |-> events[i].prefix,
          channel |-> events[i].command.channel,
          message |-> events[i].command.message]]

\* event::read() hands a key event to the match
KeyDispatched == key_event = NoKey /\ key_event' # NoKey

\* C25: once the session is up, the server-originated entries of the
\* scrollback, followed by the entries still due for the queued events, are
\* the entries of the successfully parsed PRIVMSG lines read after the
\* CapabilityAck, one each and in the order the lines were read; a key event
\* is dispatched only from the poll, the poll is entered only from a drain
\* that found the inbound queue empty, and the queue changes only by losing
\* its head or gaining one event at its tail.
C25_InboundInOrderAndDrained ==
  /\ [](hs = "ready" => RemoteEntries \o PendingEntries = EntriesOf(AfterAck))
  /\ [][/\ KeyDispatched => pc = "poll"
        /\ pc' = "poll" /\ pc # "poll" => pc = "drain" /\ inq = << >>
        /\ hs = "ready" /\ inq' # inq =>
             \/ inq # << >> /\ inq' = Tail(inq)
             \/ Len(inq') = Len(inq) + 1 /\ IsPrefix(inq, inq')]_vars

\* C25 witness: two different PRIVMSG lines were read after the
\* CapabilityAck, a message was sent between their drains, and both are in
\* the scrollback in the order they were read.
C25_Witness ==
  /\ hs = "ready"
  /\ read_log = <<LineAck, LinePrivmsgNoTags, LinePrivmsg>>
  /\ inq = << >>
  /\ Len(chat_messages) = 3
  /\ chat_messages[1] = RemoteEntry(LinePrivmsgNoTags)
  /\ IsLocal(chat_messages[2])
  /\ chat_messages[3] = RemoteEntry(LinePrivmsg)

=============================================================================
